---- MODULE Spec2Model ----
(***************************************************************************)
(* Model of the Medaltea RAG back end:                                     *)
(*   - the chat pipeline of backend/rag_api.py (retrieval, prompt          *)
(*     assembly, completion call, response stream),                        *)
(*   - the vector store service of backend/vector_db_api.py                *)
(*     (/add_document, /remove_document, /documents),                      *)
(*   - the ingestion drivers of data/ingest_documents.py and               *)
(*     data/ingest_products.py.                                            *)
(*                                                                         *)
(* Text.  A Python string is a TLA+ string.  A string built by an f-string *)
(* or a join is the sequence of the pieces it is concatenated from, so     *)
(* the empty string is any sequence whose pieces are all "".               *)
(***************************************************************************)
EXTENDS Integers, Sequences, FiniteSets, TLC

VARIABLES
    chat,     \* the /chat request in progress (rag_api.py)
    index,    \* rows of langchain_pg_embedding, as runs of chunks
    add,      \* the /add_document request in progress
    rm,       \* the /remove_document request in progress
    lst,      \* the /documents request in progress
    drv,      \* the ingestion driver run
    commits   \* the transactions committed on the table, in commit order

vars == <<chat, index, add, rm, lst, drv, commits>>

(***************************************************************************)
(* Bounds of the model.                                                    *)
(***************************************************************************)
MaxHist == 2      \* turns of history in a chat request
MaxDocs == 2      \* results in a /search response (the code asks for k = 3)
MaxParts == 2     \* chunks the completion provider produces for one answer

SeqUpTo(S, n) == UNION {[1..k -> S] : k \in 0..n}

Last(s) == s[Len(s)]

IsEmptyText(t) == \A i \in 1..Len(t) : t[i] = ""

(***************************************************************************)
(* rag_api.py : data                                                       *)
(***************************************************************************)
\* A JSON value found under a metadata key: a string or null.
JStr(s) == [t |-> "str", v |-> s]
JNull == [t |-> "null", v |-> ""]

\* str() of a JSON value inside an f-string.
Str(j) == IF j.t = "null" THEN "None" ELSE j.v

NoMetadata == [k \in {} |-> JNull]
SourceMetadata(j) == [k \in {"source"} |-> j]

Metadatas ==
    {NoMetadata, SourceMetadata(JStr("")), SourceMetadata(JStr("fiche_maux_de_tete")),
     SourceMetadata(JNull)}

\* An element of "results" in the /search body; one without page_content
\* is rejected by the RetrievedDoc model.
Items ==
    {[hasContent |-> TRUE, page_content |-> "Infusion de menthe", metadata |-> m] :
        m \in Metadatas}
    \cup {[hasContent |-> FALSE, page_content |-> "", metadata |-> NoMetadata]}

\* What client.post("/search") can give: an exception, or a response
\* with a status and a body.
SearchResponses ==
    {[raised |-> TRUE, status |-> 0, json |-> FALSE, hasResults |-> FALSE, results |-> <<>>]}
    \cup {[raised |-> FALSE, status |-> 502, json |-> FALSE, hasResults |-> FALSE,
           results |-> <<>>]}
    \cup {[raised |-> FALSE, status |-> 500, json |-> TRUE, hasResults |-> FALSE,
           results |-> <<>>]}
    \cup {[raised |-> FALSE, status |-> 200, json |-> TRUE, hasResults |-> TRUE,
           results |-> r] : r \in SeqUpTo(Items, MaxDocs)}

RetrievedDoc(d) == [page_content |-> d.page_content, metadata |-> d.metadata]

\* history turns as the request model admits them (List[List[str]])
Turns ==
    {<<"hi", "hello">>, <<"hi", "">>, <<"", "hello">>, <<"", "">>,
     <<"hi">>, <<"hi", "hello", "extra">>}

Messages == {"how are you", ""}

SystemMessage(content) == [role |-> "system", content |-> content]
HumanMessage(content) == [role |-> "user", content |-> <<content>>]
AIMessage(content) == [role |-> "assistant", content |-> <<content>>]

(***************************************************************************)
(* rag_api.py : build_system_prompt                                        *)
(***************************************************************************)
NoDocSentence == "Aucune documentation specifique trouvee pour cette requete."
PromptHead == "Tu es Medaltea ... <context>\n"
PromptTail == "\n</context> ... Genere maintenant ta reponse"

MetadataGet(md, key, default) == IF key \in DOMAIN md THEN md[key] ELSE default

RenderDoc(d) ==
    <<"Source: ", Str(MetadataGet(d.metadata, "source", JStr("Doc"))),
      "\nContenu: ", d.page_content>>

RECURSIVE Join(_, _)
Join(sep, parts) ==
    IF parts = <<>> THEN <<>>
    ELSE IF Len(parts) = 1 THEN parts[1]
    ELSE parts[1] \o <<sep>> \o Join(sep, Tail(parts))

docs_content_empty_mut(retrieved_docs) ==
    IF retrieved_docs # <<>>
    THEN Join("\n\n", [i \in 1..Len(retrieved_docs) |-> RenderDoc(retrieved_docs[i])])
    ELSE <<"">>

docs_content(retrieved_docs) ==
    IF retrieved_docs # <<>>
    THEN Join("\n\n", [i \in 1..Len(retrieved_docs) |-> RenderDoc(retrieved_docs[i])])
    ELSE <<NoDocSentence>>

build_system_prompt(retrieved_docs) ==
    <<PromptHead>> \o docs_content(retrieved_docs) \o <<PromptTail>>

\* the text between the <context> tags of a system prompt
ContextBlock(prompt) == SubSeq(prompt, 2, Len(prompt) - 1)

(***************************************************************************)
(* rag_api.py : _format_history                                            *)
(***************************************************************************)
FormatTurn_skip_mut(turn) ==
    IF Len(turn) >= 2 /\ turn[1] # "" /\ turn[2] # ""
    THEN <<HumanMessage(turn[1]), AIMessage(turn[2])>>
    ELSE <<>>

FormatTurn(turn) ==
    IF Len(turn) >= 2
    THEN (IF turn[1] # "" THEN <<HumanMessage(turn[1])>> ELSE <<>>)
         \o (IF turn[2] # "" THEN <<AIMessage(turn[2])>> ELSE <<>>)
    ELSE <<>>

RECURSIVE format_history(_)
format_history(history) ==
    IF history = <<>> THEN <<>>
    ELSE FormatTurn(Head(history)) \o format_history(Tail(history))

(***************************************************************************)
(* rag_api.py : stream_chat_response, chat                                 *)
(***************************************************************************)
\* lines 146-152: the passages the try block yields, [] on any exception;
\* escaped tells whether an exception leaves the try statement, which the
\* "except Exception" clause never allows
ParseDocs_raise_mut(resp) ==
    IF resp.raised \/ ~resp.json
    THEN [escaped |-> TRUE, docs |-> <<>>]
    ELSE IF ~resp.hasResults THEN [escaped |-> FALSE, docs |-> <<>>]
    ELSE IF \E i \in 1..Len(resp.results) : ~resp.results[i].hasContent
    THEN [escaped |-> TRUE, docs |-> <<>>]
    ELSE [escaped |-> FALSE,
          docs |-> [i \in 1..Len(resp.results) |-> RetrievedDoc(resp.results[i])]]

ParseDocs(resp) ==
    IF resp.raised \/ ~resp.json
    THEN [escaped |-> FALSE, docs |-> <<>>]
    ELSE IF ~resp.hasResults THEN [escaped |-> FALSE, docs |-> <<>>]
    ELSE IF \E i \in 1..Len(resp.results) : ~resp.results[i].hasContent
    THEN [escaped |-> FALSE, docs |-> <<>>]
    ELSE [escaped |-> FALSE,
          docs |-> [i \in 1..Len(resp.results) |-> RetrievedDoc(resp.results[i])]]

\* a retrieval that did not deliver passages: exception, error status,
\* or a body that cannot be turned into passages
RetrievalFailed(resp) ==
    \/ resp.raised
    \/ resp.status # 200
    \/ ~resp.json
    \/ ~resp.hasResults
    \/ \E i \in 1..Len(resp.results) : ~resp.results[i].hasContent

\* lines 155-162
compose_order_mut(docs, history, message) ==
    format_history(history)
    \o <<SystemMessage(build_system_prompt(docs))>>
    \o <<HumanMessage(message)>>

compose(docs, history, message) ==
    <<SystemMessage(build_system_prompt(docs))>>
    \o format_history(history)
    \o <<HumanMessage(message)>>

NoResponse == [raised |-> FALSE, status |-> 0, json |-> FALSE, hasResults |-> FALSE,
               results |-> <<>>]

ChatIdle ==
    [pc |-> "IDLE", message |-> "", history |-> <<>>, search |-> NoResponse,
     docs |-> <<>>, messages |-> <<>>, status |-> 0, calls |-> 0,
     produced |-> <<>>, content |-> <<>>, body |-> <<>>]

ChatReceived(message, history) ==
    [ChatIdle EXCEPT !.pc = "RECEIVED", !.message = message, !.history = history]

\* chat(): the handler returns a StreamingResponse around the generator,
\* whose body has not started to run: the status line is 200 from here on.
ChatHandler ==
    /\ chat.pc = "RECEIVED"
    /\ chat' = [chat EXCEPT !.pc = "RETRIEVING", !.status = 200]
    /\ UNCHANGED <<index, add, rm, lst, drv, commits>>

\* lines 145-152
Retrieve ==
    /\ chat.pc = "RETRIEVING"
    /\ \E resp \in SearchResponses :
         LET r == ParseDocs(resp) IN
         chat' = [chat EXCEPT !.search = resp,
                              !.docs = r.docs,
                              !.pc = IF r.escaped THEN "FAILED" ELSE "COMPOSING"]
    /\ UNCHANGED <<index, add, rm, lst, drv, commits>>

\* lines 154-167: the messages are built and model.ainvoke is called
Compose ==
    /\ chat.pc = "COMPOSING"
    /\ chat' = [chat EXCEPT !.messages = compose(chat.docs, chat.history, chat.message),
                            !.calls = chat.calls + 1,
                            !.pc = "GENERATING"]
    /\ UNCHANGED <<index, add, rm, lst, drv, commits>>

\* the k-th piece of the answer the provider generates
Piece(k) == IF k = 1 THEN "Bonjour" ELSE " - tisane"

\* the provider generates the next piece of its answer
ProviderProduce ==
    /\ chat.pc = "GENERATING"
    /\ Len(chat.produced) < MaxParts
    /\ chat' = [chat EXCEPT !.produced = Append(@, Piece(Len(@) + 1))]
    /\ UNCHANGED <<index, add, rm, lst, drv, commits>>

\* line 167: ainvoke returns the complete answer
ProviderReturn ==
    /\ chat.pc = "GENERATING"
    /\ chat' = [chat EXCEPT !.content = chat.produced, !.pc = "STREAMING"]
    /\ UNCHANGED <<index, add, rm, lst, drv, commits>>

\* line 167: ainvoke raises; nothing in the generator catches it
ProviderRaise ==
    /\ chat.pc = "GENERATING"
    /\ chat' = [chat EXCEPT !.pc = "FAILED"]
    /\ UNCHANGED <<index, add, rm, lst, drv, commits>>

\* lines 170-171
Emit ==
    /\ chat.pc = "STREAMING"
    /\ chat' = [chat EXCEPT
                  !.body = IF ~IsEmptyText(chat.content)
                           THEN Append(chat.body, chat.content) ELSE chat.body,
                  !.pc = "DONE"]
    /\ UNCHANGED <<index, add, rm, lst, drv, commits>>

Idle == [pc |-> "IDLE"]

InitChat ==
    /\ chat \in {ChatReceived(m, h) : m \in Messages, h \in SeqUpTo(Turns, MaxHist)}
    /\ index = {}
    /\ add = Idle
    /\ rm = Idle
    /\ lst = Idle
    /\ drv = Idle
    /\ commits = <<>>

NextChat ==
    \/ ChatHandler
    \/ Retrieve
    \/ Compose
    \/ ProviderProduce
    \/ ProviderReturn
    \/ ProviderRaise
    \/ Emit

SpecChat == InitChat /\ [][NextChat]_vars

(***************************************************************************)
(* Properties of the chat pipeline (checked under SpecChat)                *)
(***************************************************************************)
Composed == chat.pc \in {"GENERATING", "STREAMING", "DONE", "FAILED"}

\* C1: a retrieval failure (the /search call raises, answers an error
\* status, or answers a body that cannot be turned into passages) never
\* ends the request: the step out of RETRIEVING goes to COMPOSING with no
\* passages, FAILED is entered from GENERATING only, and the provider is
\* then called with the messages composed from an empty passage set.
C1_RetrievalFailureAbsorbed ==
    /\ [](Composed /\ RetrievalFailed(chat.search)
            => /\ chat.docs = <<>>
               /\ chat.calls = 1
               /\ ContextBlock(chat.messages[1].content) = <<NoDocSentence>>)
    /\ [][/\ (chat.pc = "RETRIEVING" /\ chat'.pc # "RETRIEVING"
                => /\ chat'.pc = "COMPOSING"
                   /\ (RetrievalFailed(chat'.search) => chat'.docs = <<>>))
          /\ (chat.pc # "FAILED" /\ chat'.pc = "FAILED" => chat.pc = "GENERATING")]_vars

C1_Witness ==
    /\ chat.pc = "GENERATING"
    /\ chat.search.raised
    /\ chat.calls = 1
    /\ chat.docs = <<>>

\* C2: the message sequence handed to the provider has exactly one system
\* message, at position 0, then the folded history, and the current user
\* message as its last element.
C2_MessageOrder ==
    Composed =>
        LET ms == chat.messages IN
        /\ Len(ms) >= 2
        /\ ms[1].role = "system"
        /\ \A i \in 2..Len(ms) : ms[i].role # "system"
        /\ Last(ms) = HumanMessage(chat.message)
        /\ SubSeq(ms, 2, Len(ms) - 1) = format_history(chat.history)

C2_Witness ==
    /\ chat.pc = "GENERATING"
    /\ Len(chat.docs) = 2
    /\ chat.history = <<<<"hi", "hello">>, <<"hi", "hello">>>>
    /\ Len(chat.messages) = 6

\* C3: for a history of (userText, botText) pairs, the fold is the pairs in
\* their order, each as a user message followed by an assistant message,
\* without the messages of empty sides and without any other change.
AllPairs(history) == \A i \in 1..Len(history) : Len(history[i]) = 2

Flat(history) ==
    [k \in 1..(2 * Len(history)) |->
        IF k % 2 = 1 THEN HumanMessage(history[(k + 1) \div 2][1])
        ELSE AIMessage(history[k \div 2][2])]

NonEmptyMessage(m) == m.content # <<"">>

ExpectedFold(history) == SelectSeq(Flat(history), NonEmptyMessage)

C3_HistoryFold ==
    Composed /\ AllPairs(chat.history)
        => SubSeq(chat.messages, 2, Len(chat.messages) - 1) = ExpectedFold(chat.history)

C3_Witness ==
    /\ chat.pc = "GENERATING"
    /\ chat.history = <<<<"", "hello">>, <<"hi", "">>>>
    /\ Len(chat.messages) = 4
    /\ chat.messages[2] = AIMessage("hello")
    /\ chat.messages[3] = HumanMessage("hi")

\* C4: with an empty passage set the context block of the system message
\* is the fixed no-documentation sentence, never an empty string.
C4_EmptyContextFallback ==
    Composed /\ chat.docs = <<>>
        => /\ ContextBlock(chat.messages[1].content) = <<NoDocSentence>>
           /\ ~IsEmptyText(ContextBlock(chat.messages[1].content))

C4_Witness ==
    /\ chat.pc = "GENERATING"
    /\ chat.search.status = 200
    /\ chat.search.results = <<>>
    /\ chat.docs = <<>>
    /\ chat.messages[1].role = "system"

\* C5: for a non-empty passage sequence the context block is the passages
\* in retrieval order, each 'Source: <s>' newline 'Contenu: <text>', joined
\* by a blank line, <s> being the metadata source, or 'Doc' when the source
\* is absent or empty.
ClaimedSource(d) ==
    IF "source" \in DOMAIN d.metadata
    THEN (IF d.metadata["source"] = JStr("") THEN "Doc" ELSE Str(d.metadata["source"]))
    ELSE "Doc"

ClaimedContext(docs) ==
    [p \in 1..(5 * Len(docs) - 1) |->
        LET d == docs[((p - 1) \div 5) + 1]
            r == (p - 1) % 5
        IN CASE r = 0 -> "Source: "
             [] r = 1 -> ClaimedSource(d)
             [] r = 2 -> "\nContenu: "
             [] r = 3 -> d.page_content
             [] r = 4 -> "\n\n"]

C5_ContextRendering ==
    Composed /\ chat.docs # <<>>
        => ContextBlock(chat.messages[1].content) = ClaimedContext(chat.docs)

\* C10: when the provider call fails the request ends in FAILED and the
\* caller observes a server error, the provider having been called once
\* and no answer text having been emitted.
C10_ProviderFailureIsServerError ==
    chat.pc = "FAILED"
        => /\ chat.status >= 500
           /\ chat.calls <= 1
           /\ chat.body = <<>>

\* C11: the provider's output is forwarded incrementally: as soon as the
\* provider has produced a later piece of its answer, every earlier piece
\* has already been emitted to the caller as a chunk of its own, in the
\* provider's order.
C11_IncrementalForwarding ==
    \A k \in 1..(Len(chat.produced) - 1) :
        /\ Len(chat.body) >= k
        /\ chat.body[k] = <<chat.produced[k]>>

(***************************************************************************)
(* vector_db_api.py : the table langchain_pg_embedding                     *)
(*                                                                         *)
(* The chunks of one batch of one upload carry the same metadata and the   *)
(* same collection, and every statement of the service treats them alike,  *)
(* so a batch of rows is kept as one run: the rows of chunks lo..hi of     *)
(* upload id.  Rows that were in the table before the service started      *)
(* have id 0.                                                              *)
(***************************************************************************)
BatchSize == 1000

MaxBatches == 2    \* full batches in the largest document
MaxUploads == 1    \* /add_document requests in one behaviour
MaxCommits == 3    \* transactions committed in one behaviour of the service
MaxFiles == 2      \* files the ingestion driver enumerates

\* SQL NULL for a metadata key that is absent (never equal to a parameter)
Null == "<NULL>"

Row(id, source, filename, file_type, coll, mdcoll, lo, hi) ==
    [id |-> id, source |-> source, filename |-> filename, file_type |-> file_type,
     coll |-> coll, mdcoll |-> mdcoll, lo |-> lo, hi |-> hi]

Size(row) == row.hi - row.lo + 1

RECURSIVE SumSizes(_)
SumSizes(rows) ==
    IF rows = {} THEN 0
    ELSE LET r == CHOOSE x \in rows : TRUE IN Size(r) + SumSizes(rows \ {r})

Min(a, b) == IF a <= b THEN a ELSE b

Filenames == {"a.pdf", "b.pdf", "f.csv", "x.exe", ""}

\* the names /add_document and /remove_document are called with
RequestNames == {"a.pdf", "f.csv", "x.exe", ""}

\* Path(name).suffix.lower()
Suffix(name) ==
    CASE name = "a.pdf" -> ".pdf"
      [] name = "b.pdf" -> ".pdf"
      [] name = "f.csv" -> ".csv"
      [] name = "x.exe" -> ".exe"
      [] OTHER -> ""

\* file_ext.lstrip('.')
FileType(name) ==
    CASE Suffix(name) = ".pdf" -> "pdf"
      [] Suffix(name) = ".csv" -> "csv"
      [] Suffix(name) = ".exe" -> "exe"
      [] OTHER -> ""

SupportedExt == {".txt", ".md", ".pdf", ".csv"}

\* a row as /add_document stores it: metadata of _load_document_from_file,
\* collection of the PGVector store
UploadedRow(id, filename, lo, hi) ==
    Row(id, "uploaded", filename, FileType(filename), TRUE, FALSE, lo, hi)

\* rows the table may hold when the service starts: earlier uploads, a row
\* of another source under the same filename, a row of another collection
InitRows ==
    {UploadedRow(0, "a.pdf", 1, 500),
     Row(0, "web", "a.pdf", "pdf", TRUE, FALSE, 1, 1),
     Row(0, "uploaded", "f.csv", "csv", FALSE, FALSE, 1, 1)}

\* numbers of chunks _split_documents may give
ChunkCounts == {k * BatchSize + r : k \in 0..MaxBatches, r \in {0, 500}}

ErrTypes == {"ValueError", "Exception"}

\* lines 328-335: the status of an exception that leaves the handler body
StatusOf(err) == IF err = "ValueError" THEN 400 ELSE 500

AddIdle ==
    [pc |-> "IDLE", id |-> 0, filename |-> "", n |-> 0, i |-> 0, total_added |-> 0,
     status |-> 0, tmp |-> FALSE, exit |-> "none"]

\* what reading the upload, loading it and splitting it can give
AddOutcomes ==
    {[kind |-> "read_error", err |-> "Exception", n |-> 0],
     [kind |-> "empty", err |-> "", n |-> 0]}
    \cup {[kind |-> "load_error", err |-> e, n |-> 0] : e \in ErrTypes}
    \cup {[kind |-> "chunks", err |-> "", n |-> n] : n \in ChunkCounts}

\* lines 271-300, up to the first insertion
AddBegin(filename, o) ==
    /\ add.pc \in {"IDLE", "DONE"}
    /\ LET req == [AddIdle EXCEPT !.id = add.id + 1, !.filename = filename] IN
       add' =
         IF filename = ""
         THEN [req EXCEPT !.pc = "DONE", !.status = 400, !.exit = "no_filename"]
         ELSE IF Suffix(filename) \notin SupportedExt
         THEN [req EXCEPT !.pc = "DONE", !.status = 400, !.exit = "unsupported"]
         ELSE IF o.kind = "read_error"
         THEN [req EXCEPT !.pc = "DONE", !.status = StatusOf(o.err), !.tmp = TRUE,
                          !.exit = "read"]
         ELSE IF o.kind = "load_error"
         THEN [req EXCEPT !.pc = "DONE", !.status = StatusOf(o.err), !.exit = "load"]
         ELSE IF o.kind = "empty"
         THEN [req EXCEPT !.pc = "DONE", !.status = 400, !.exit = "empty"]
         ELSE IF o.n = 0
         THEN [req EXCEPT !.pc = "DONE", !.status = 200, !.exit = "ok"]
         ELSE [req EXCEPT !.pc = "ADDING", !.n = o.n, !.tmp = TRUE]

InsertEvent(row) ==
    [op |-> "insert", id |-> row.id, source |-> row.source, filename |-> row.filename,
     lo |-> row.lo, hi |-> row.hi, deleted |-> 0]

DeleteEvent(source, filename, deleted) ==
    [op |-> "delete", id |-> 0, source |-> source, filename |-> filename,
     lo |-> 0, hi |-> 0, deleted |-> deleted]

\* line 307: batch = chunks[i:i + batch_size]
BatchOf(i, n) == [lo |-> i + 1, hi |-> Min(i + BatchSize, n)]

\* lines 306-322: one batch is inserted and committed; after the last one
\* the handler returns
AddBatch ==
    /\ add.pc = "ADDING"
    /\ LET b == BatchOf(add.i, add.n)
           row == UploadedRow(add.id, add.filename, b.lo, b.hi)
           next == add.i + BatchSize
       IN /\ index' = index \cup {row}
          /\ commits' = Append(commits, InsertEvent(row))
          /\ add' = IF next < add.n
                    THEN [add EXCEPT !.i = next, !.total_added = @ + Size(row)]
                    ELSE [add EXCEPT !.i = next, !.total_added = @ + Size(row),
                                     !.pc = "DONE", !.status = 200, !.tmp = FALSE,
                                     !.exit = "ok"]

\* line 311 raises (embedding provider or store): lines 324-335
AddBatchFail_rollback_mut(err) ==
    /\ add.pc = "ADDING"
    /\ add' = [add EXCEPT !.pc = "DONE", !.status = StatusOf(err), !.tmp = FALSE,
                          !.exit = "insert"]
    /\ index' = {r \in index : r.id # add.id}
    /\ UNCHANGED commits

AddBatchFail(err) ==
    /\ add.pc = "ADDING"
    /\ add' = [add EXCEPT !.pc = "DONE", !.status = StatusOf(err), !.tmp = FALSE,
                          !.exit = "insert"]
    /\ UNCHANGED <<index, commits>>

(***************************************************************************)
(* vector_db_api.py : _remove_documents_from_db, remove_document           *)
(***************************************************************************)
Matches_source_mut(row, source, filename) ==
    row.source = source /\ row.filename = filename

\* the WHERE clause of lines 99-102
Matches(row, source, filename) ==
    \/ row.source = source /\ row.filename = filename
    \/ row.coll /\ row.filename = filename

DeletedRows_one_mut(rows, source, filename) ==
    LET m == {r \in rows : Matches(r, source, filename)} IN
    IF m = {} THEN {} ELSE {CHOOSE r \in m : TRUE}

DeletedRows(rows, source, filename) == {r \in rows : Matches(r, source, filename)}

\* the client of /remove_document: the document it asks to remove, and the
\* response to its last request
RmClient(source, filename) ==
    [pc |-> "IDLE", source |-> source, filename |-> filename, deleted |-> 0,
     status |-> 0]

RmIdle == RmClient("", "")

Sources == {"uploaded", "web"}

\* lines 338-366 with lines 84-119
RemoveDocument(source, filename, dbError) ==
    /\ IF dbError
       THEN /\ rm' = [pc |-> "DONE", source |-> source, filename |-> filename,
                      deleted |-> 0, status |-> 500]
            /\ UNCHANGED <<index, commits>>
       ELSE LET del == DeletedRows(index, source, filename)
                deleted_count == SumSizes(del)
            IN /\ index' = index \ del
               /\ commits' = Append(commits, DeleteEvent(source, filename, deleted_count))
               /\ rm' = [pc |-> "DONE", source |-> source, filename |-> filename,
                         deleted |-> deleted_count,
                         status |-> IF deleted_count > 0 THEN 200 ELSE 404]

(***************************************************************************)
(* vector_db_api.py : get_documents_info                                   *)
(***************************************************************************)
\* the WHERE clause of lines 217-219 and 234-236
Listed(rows) == {r \in rows : r.mdcoll \/ r.coll}

Or(a, b) == IF a # Null /\ a # "" THEN a ELSE b

\* lines 226-251; the groups are kept as a set, their order is not modelled
documents_info(rows) ==
    {[source |-> Or(r.source, "Unknown"),
      filename |-> Or(r.filename, Or(r.source, "Unknown")),
      file_type |-> Or(r.file_type, "unknown"),
      chunks_count |-> SumSizes({x \in Listed(rows) :
                                   /\ x.source = r.source
                                   /\ x.filename = r.filename
                                   /\ x.file_type = r.file_type})] :
        r \in Listed(rows)}

\* the /documents request: seen is the number of transactions that were
\* committed when the count statement ran
LstIdle ==
    [pc |-> "IDLE", total_chunks |-> 0, documents |-> {}, status |-> 0, seen |-> 0]

\* lines 211-224: the connection is opened and the count statement runs
ListCount ==
    /\ lst.pc \in {"IDLE", "DONE"}
    /\ \E dbError \in BOOLEAN :
         lst' = IF dbError
                THEN [LstIdle EXCEPT !.pc = "DONE", !.status = 500]
                ELSE [LstIdle EXCEPT !.pc = "COUNTED",
                                     !.total_chunks = SumSizes(Listed(index)),
                                     !.seen = Len(commits)]
    /\ UNCHANGED <<chat, index, add, rm, drv, commits>>

\* lines 226-265: the aggregation statement runs, on the rows committed by
\* then (each statement of a READ COMMITTED transaction reads the rows
\* committed when it starts), and the response is built
ListGroup ==
    /\ lst.pc = "COUNTED"
    /\ \E dbError \in BOOLEAN :
         lst' = IF dbError
                THEN [LstIdle EXCEPT !.pc = "DONE", !.status = 500]
                ELSE [lst EXCEPT !.pc = "DONE",
                                 !.documents = documents_info(index),
                                 !.status = 200]
    /\ UNCHANGED <<chat, index, add, rm, drv, commits>>

(***************************************************************************)
(* The vector store service and its clients                                *)
(***************************************************************************)
StoreAddBegin ==
    /\ add.id < MaxUploads
    /\ \E f \in RequestNames, o \in AddOutcomes : AddBegin(f, o)
    /\ UNCHANGED <<chat, index, rm, lst, drv, commits>>

StoreAddBatch ==
    /\ Len(commits) < MaxCommits
    /\ AddBatch
    /\ UNCHANGED <<chat, rm, lst, drv>>

StoreAddBatchFail ==
    /\ \E err \in ErrTypes : AddBatchFail(err)
    /\ UNCHANGED <<chat, rm, lst, drv>>

StoreRemove ==
    /\ \E dbError \in BOOLEAN :
         /\ dbError \/ Len(commits) < MaxCommits
         /\ RemoveDocument(rm.source, rm.filename, dbError)
    /\ UNCHANGED <<chat, add, lst, drv>>

InitStore ==
    /\ chat = Idle
    /\ index \in SUBSET InitRows
    /\ add = AddIdle
    /\ rm \in {RmClient(s, f) : s \in Sources, f \in {"a.pdf", "f.csv"}}
    /\ lst = LstIdle
    /\ drv = Idle
    /\ commits = <<>>

NextStore ==
    \/ StoreAddBegin
    \/ StoreAddBatch
    \/ StoreAddBatchFail
    \/ StoreRemove

SpecStore == InitStore /\ [][NextStore]_vars

(***************************************************************************)
(* Properties of the vector store service (checked under SpecStore)        *)
(***************************************************************************)
RowsOf(id) == {r \in index : r.id = id}

\* the row of batch b (1, 2, ...) of an upload
NthBatchRow(id, filename, b) ==
    UploadedRow(id, filename, (b - 1) * BatchSize + 1, b * BatchSize)

\* row was committed and a later transaction of /remove_document deleted it
RemovedLater(row) ==
    \E p, q \in 1..Len(commits) :
        /\ p < q
        /\ commits[p] = InsertEvent(row)
        /\ commits[q].op = "delete"
        /\ commits[q].deleted > 0
        /\ Matches(row, commits[q].source, commits[q].filename)

\* C6: chunks go in consecutive batches of at most 1000, each committed on
\* its own.  When the insertion of batch n fails, the request reports a
\* failure, the failing step takes nothing back, the batches 1..n-1 were
\* committed and are in the index (unless /remove_document deleted them
\* since), and no chunk of batch n or of a later batch is in the index.
C6_BatchDurability ==
    /\ [](/\ \A r \in index : r.id > 0 =>
                /\ Size(r) <= BatchSize
                /\ (r.lo - 1) % BatchSize = 0
          /\ add.exit = "insert" =>
                LET done == add.i \div BatchSize IN
                /\ add.pc = "DONE"
                /\ add.status >= 400
                /\ \A b \in 1..done :
                      LET row == NthBatchRow(add.id, add.filename, b) IN
                      /\ \E p \in 1..Len(commits) : commits[p] = InsertEvent(row)
                      /\ row \in index \/ RemovedLater(row)
                /\ \A r \in RowsOf(add.id) : r.hi <= done * BatchSize)
    /\ [][add.pc = "ADDING" /\ add'.exit = "insert" => index' = index]_vars

C6_Witness ==
    /\ add.exit = "insert"
    /\ add.n = 2500
    /\ add.i = 2000
    /\ add.status = 500
    /\ RowsOf(add.id) = {NthBatchRow(add.id, add.filename, 1),
                         NthBatchRow(add.id, add.filename, 2)}
    /\ SumSizes(RowsOf(add.id)) = 2000

\* C7: a remove(source, filename) that follows one that deleted at least
\* one record, with no insertion committed in between, deletes nothing,
\* leaves the index as it is, and answers not-found (404), not a server
\* error.
C7_RemovalIdempotent ==
    /\ [](\A p, q \in 1..Len(commits) :
            /\ p < q
            /\ commits[p].op = "delete"
            /\ commits[p].deleted > 0
            /\ commits[q].op = "delete"
            /\ commits[q].source = commits[p].source
            /\ commits[q].filename = commits[p].filename
            /\ \A k \in (p + 1)..(q - 1) : commits[k].op # "insert"
            => commits[q].deleted = 0)
    /\ [][/\ Len(commits') = Len(commits) + 1
          /\ Last(commits').op = "delete"
          /\ Last(commits').deleted = 0
          => /\ index' = index
             /\ rm'.deleted = 0
             /\ rm'.status = 404]_vars

C7_Witness ==
    /\ Len(commits) = 2
    /\ commits[1].op = "delete"
    /\ commits[1].deleted > 0
    /\ commits[2].op = "delete"
    /\ commits[2].deleted = 0
    /\ rm.status = 404
    /\ rm.deleted = 0

\* a step that commits the DELETE of a /remove_document request
RemoveCommits ==
    /\ Len(commits') = Len(commits) + 1
    /\ Last(commits').op = "delete"

\* C13: a /remove_document request for (source, filename) deletes exactly
\* the records whose metadata carry that source and that filename, or that
\* belong to the configured collection and carry that filename; a record
\* with another filename stays; the request reports the removal (200) if
\* and only if it deleted at least one record, and a request whose
\* statement failed deletes nothing and reports no removal.
C13_RemoveExact ==
    [][/\ RemoveCommits =>
            LET hit == {r \in index :
                          \/ r.source = rm'.source /\ r.filename = rm'.filename
                          \/ r.coll /\ r.filename = rm'.filename}
            IN /\ index' = index \ hit
               /\ \A r \in index : r.filename # rm'.filename => r \in index'
               /\ rm'.status \in {200, 404}
               /\ rm'.status = 200 <=> hit # {}
               /\ rm'.deleted = SumSizes(hit)
       /\ (~RemoveCommits /\ rm' # rm) =>
            /\ index' = index
            /\ rm'.status = 500]_vars

\* a removal for ("uploaded", "a.pdf") deleted the 500 uploaded chunks and
\* the chunk of source "web" of the same collection and filename, while
\* the record of "f.csv" stayed
C13_Witness ==
    /\ rm.status = 200
    /\ rm.source = "uploaded"
    /\ rm.filename = "a.pdf"
    /\ rm.deleted = 501
    /\ Row(0, "uploaded", "f.csv", "csv", FALSE, FALSE, 1, 1) \in index
    /\ \A r \in index : r.filename # "a.pdf"

\* C12: when an /add_document request has ended, the temporary file made
\* for the upload no longer exists, whatever the exit path: success, empty
\* parse result, loader exception, insertion failure, or a failure while
\* the upload is read and written to the temporary file.
C12_TempFileRemoved ==
    add.pc = "DONE" => ~add.tmp

\* C14: the status of an ended /add_document request follows the origin
\* of the failure: an unsupported extension or an empty parse result gives
\* 400 and no chunk of the request is in the index; a failure raised during
\* the insertion of a batch gives 500 whatever the type of the error; and
\* 200 is given only when every batch was inserted, chunks_added being the
\* number of chunks the split produced.
C14_StatusFollowsOrigin ==
    add.pc = "DONE" =>
        /\ add.exit \in {"unsupported", "empty"} =>
              add.status = 400 /\ RowsOf(add.id) = {}
        /\ add.exit = "insert" => add.status = 500
        /\ add.status = 200 =>
              /\ add.exit = "ok"
              /\ add.i >= add.n
              /\ add.total_added = add.n

(***************************************************************************)
(* The /documents listing beside the writers of the table                  *)
(*                                                                         *)
(* The handlers are coroutines of one event loop.  get_documents_info and  *)
(* remove_document call the database synchronously, so between the two     *)
(* statements of a listing the event loop runs nothing else.  The batch    *)
(* insertion of add_document runs in the thread pool (line 311): an        *)
(* insertion submitted before the listing started commits whenever it      *)
(* completes, also between the two statements; the next batch is submitted *)
(* by the event loop, after the listing.                                   *)
(***************************************************************************)
EventLoopFree == lst.pc # "COUNTED"

ListAddBegin == EventLoopFree /\ StoreAddBegin

ListAddBatch ==
    /\ EventLoopFree \/ Len(commits) = lst.seen
    /\ StoreAddBatch

ListAddBatchFail == EventLoopFree /\ StoreAddBatchFail

ListRemove == EventLoopFree /\ StoreRemove

InitList == InitStore

NextList ==
    \/ ListAddBegin
    \/ ListAddBatch
    \/ ListAddBatchFail
    \/ ListRemove
    \/ ListCount
    \/ ListGroup

SpecList == InitList /\ [][NextList]_vars

RECURSIVE SumCounts(_)
SumCounts(docs) ==
    IF docs = {} THEN 0
    ELSE LET d == CHOOSE x \in docs : TRUE IN d.chunks_count + SumCounts(docs \ {d})

\* C15: in every successful /documents response, total_chunks is the sum
\* of chunks_count over the listed documents, also when a batch of
\* /add_document or a deletion of /remove_document commits between the
\* count statement and the aggregation statement of the listing.
C15_TotalIsSum ==
    lst.pc = "DONE" /\ lst.status = 200
        => lst.total_chunks = SumCounts(lst.documents)

(***************************************************************************)
(* data/ingest_documents.py : ingest_documents                             *)
(* data/ingest_products.py  : ingest_file                                  *)
(*                                                                         *)
(* The driver is a sequential client of the service: it calls /documents   *)
(* once, then /add_document for one file after the other, waiting for each *)
(* response.  kind tells which of the two scripts runs.                    *)
(***************************************************************************)
PdfNames == {"a.pdf", "b.pdf", "c.pdf"}

\* what directory_path.glob("*.pdf") can give: distinct names, any order
Globs ==
    {fs \in SeqUpTo(PdfNames, MaxFiles) :
        \A i, j \in 1..Len(fs) : i # j => fs[i] # fs[j]}

DrvRun(kind, exists, files) ==
    [pc |-> "START", kind |-> kind, exists |-> exists, files |-> files, k |-> 1,
     listed |-> "none", existing_files |-> {}, success_count |-> 0,
     failure_count |-> 0, calls |-> <<>>]

\* what the driver makes the service read, load and split
DrvOutcomes ==
    {[kind |-> "load_error", err |-> "Exception", n |-> 0],
     [kind |-> "chunks", err |-> "", n |-> BatchSize + 500]}

\* ingest_documents lines 12-25, ingest_file lines 10-13
DrvStart ==
    /\ drv.pc = "START"
    /\ drv' = IF ~drv.exists \/ drv.files = <<>>
              THEN [drv EXCEPT !.pc = "DONE"]
              ELSE [drv EXCEPT !.pc = "LIST"]
    /\ UNCHANGED <<chat, index, add, rm, lst, commits>>

\* ingest_documents lines 33-34, ingest_file line 20
ExistingFiles_source_mut(documents) == {d.source : d \in documents}

ExistingFiles(documents) == {d.filename : d \in documents}

\* ingest_documents lines 27-39, ingest_file lines 15-27: the listing call
\* answers 200, or another status, or raises
DrvList ==
    /\ drv.pc = "LIST"
    /\ \E outcome \in {"ok", "status", "exception"} :
         LET existing == IF outcome = "ok"
                         THEN ExistingFiles(documents_info(index)) ELSE {}
         IN drv' = [drv EXCEPT
                      !.listed = outcome,
                      !.existing_files = existing,
                      !.pc = IF drv.kind = "file" /\ drv.files[1] \in existing
                             THEN "DONE" ELSE "LOOP"]
    /\ UNCHANGED <<chat, index, add, rm, lst, commits>>

\* ingest_documents lines 41-44
DrvSkip ==
    /\ drv.pc = "LOOP"
    /\ drv.k <= Len(drv.files)
    /\ drv.files[drv.k] \in drv.existing_files
    /\ drv' = [drv EXCEPT !.k = drv.k + 1]
    /\ UNCHANGED <<chat, index, add, rm, lst, commits>>

\* ingest_documents lines 46-52, ingest_file lines 29-35: the request
\* reaches the service
DrvUploadSend ==
    /\ drv.pc = "LOOP"
    /\ drv.k <= Len(drv.files)
    /\ drv.files[drv.k] \notin drv.existing_files
    /\ \E o \in DrvOutcomes : AddBegin(drv.files[drv.k], o)
    /\ drv' = [drv EXCEPT !.calls = Append(drv.calls, drv.files[drv.k]), !.pc = "WAIT"]
    /\ UNCHANGED <<chat, index, rm, lst, commits>>

\* ingest_documents lines 61-63, ingest_file lines 43-44: open() or the
\* request raises before the service is reached
UploadError_abort_mut(d) == [d EXCEPT !.pc = "DONE"]

UploadError(d) ==
    [d EXCEPT !.failure_count = IF d.kind = "documents" THEN @ + 1 ELSE @,
              !.k = d.k + 1,
              !.pc = "LOOP"]

DrvUploadError ==
    /\ drv.pc = "LOOP"
    /\ drv.k <= Len(drv.files)
    /\ drv.files[drv.k] \notin drv.existing_files
    /\ drv' = UploadError([drv EXCEPT !.calls = Append(drv.calls, drv.files[drv.k])])
    /\ UNCHANGED <<chat, index, add, rm, lst, commits>>

\* the service works on the request
DrvServerBatch ==
    /\ drv.pc = "WAIT"
    /\ AddBatch
    /\ UNCHANGED <<chat, rm, lst, drv>>

DrvServerBatchFail ==
    /\ drv.pc = "WAIT"
    /\ \E err \in ErrTypes : AddBatchFail(err)
    /\ UNCHANGED <<chat, rm, lst, drv>>

\* ingest_documents lines 54-63, ingest_file lines 37-44: the response
\* arrives, or the connection breaks and requests.post raises
DrvResponse ==
    /\ drv.pc = "WAIT"
    /\ add.pc = "DONE"
    /\ \E lost \in BOOLEAN :
         drv' = IF lost THEN UploadError(drv)
                ELSE IF drv.kind = "file" THEN [drv EXCEPT !.k = drv.k + 1, !.pc = "LOOP"]
                ELSE IF add.status = 200
                THEN [drv EXCEPT !.success_count = @ + 1, !.k = drv.k + 1, !.pc = "LOOP"]
                ELSE [drv EXCEPT !.failure_count = @ + 1, !.k = drv.k + 1, !.pc = "LOOP"]
    /\ UNCHANGED <<chat, index, add, rm, lst, commits>>

\* ingest_documents lines 65-68
DrvFinish ==
    /\ drv.pc = "LOOP"
    /\ drv.k > Len(drv.files)
    /\ drv' = [drv EXCEPT !.pc = "DONE"]
    /\ UNCHANGED <<chat, index, add, rm, lst, commits>>

InitIngest ==
    /\ chat = Idle
    /\ index \in SUBSET InitRows
    /\ add = AddIdle
    /\ rm = RmIdle
    /\ lst = LstIdle
    /\ drv \in {DrvRun("documents", TRUE, fs) : fs \in Globs}
               \cup {DrvRun("documents", FALSE, <<>>)}
               \cup {DrvRun("file", e, <<f>>) : e \in BOOLEAN, f \in {"a.pdf", "f.csv"}}
    /\ commits = <<>>

NextIngest ==
    \/ DrvStart
    \/ DrvList
    \/ DrvSkip
    \/ DrvUploadSend
    \/ DrvUploadError
    \/ DrvServerBatch
    \/ DrvServerBatchFail
    \/ DrvResponse
    \/ DrvFinish

SpecIngest == InitIngest /\ [][NextIngest]_vars

\* the driver is a sequential script and the service answers every request:
\* a step that can be taken is taken
SpecIngestFair == SpecIngest /\ WF_vars(NextIngest)

(***************************************************************************)
(* Properties of the ingestion drivers                                     *)
(***************************************************************************)
Range(seq) == {seq[i] : i \in 1..Len(seq)}

Count(x, seq) == Cardinality({i \in 1..Len(seq) : seq[i] = x})

\* the rows the index held when the run started (the run itself only adds
\* rows, under upload ids 1, 2, ...)
RowsAtStart == {r \in index : r.id = 0}

\* C8 as claimed: a file whose name the index already holds records for is
\* never posted to /add_document, whatever the listing call gave.
C8_SkipIndexed ==
    \A f \in Range(drv.files) :
        (\E r \in RowsAtStart : r.filename = f) => f \notin Range(drv.calls)

\* C8 amended: when the listing call answered 200 and the index held
\* records of the configured collection under the filename f, f is never
\* posted to /add_document; when the listing call failed, the skip-set is
\* empty and every file the run got to was posted.
C8_SkipListed ==
    /\ \A f \in Range(drv.files) :
          /\ drv.listed = "ok"
          /\ \E r \in Listed(RowsAtStart) : r.filename = f
          => /\ f \notin Range(drv.calls)
             /\ add.filename # f
    /\ drv.listed \in {"status", "exception"} /\ drv.pc = "DONE"
          => Range(drv.calls) = Range(drv.files)

C8_Witness ==
    /\ drv.pc = "DONE"
    /\ drv.kind = "documents"
    /\ drv.listed = "ok"
    /\ drv.files = <<"a.pdf", "b.pdf">>
    /\ UploadedRow(0, "a.pdf", 1, 500) \in index
    /\ drv.calls = <<"b.pdf">>

\* C9: ingest_documents attempts every file outside the skip-set exactly
\* once, whatever uploads failed before it, ends, and ends with
\* success_count + failure_count equal to the number of non-skipped files.
C9_ContinueOnError ==
    /\ [](drv.kind = "documents" /\ drv.pc = "DONE" =>
            LET attempted == {f \in Range(drv.files) : f \notin drv.existing_files} IN
            /\ \A f \in Range(drv.files) :
                  Count(f, drv.calls) = IF f \in attempted THEN 1 ELSE 0
            /\ Len(drv.calls) = Cardinality(attempted)
            /\ drv.success_count + drv.failure_count = Cardinality(attempted))
    /\ <>(drv.pc = "DONE")

C9_Witness ==
    /\ drv.kind = "documents"
    /\ drv.pc = "DONE"
    /\ drv.files = <<"a.pdf", "b.pdf">>
    /\ drv.existing_files = {}
    /\ drv.calls = <<"a.pdf", "b.pdf">>
    /\ drv.failure_count = 1
    /\ drv.success_count = 1
    /\ add.filename = "b.pdf"
    /\ add.status = 200

====
